---- MODULE Spec2Model ----
(***************************************************************************)
(* intro_Bayesian_PyMC3_ODSC_Oct_2020.ipynb as a state machine.            *)
(*                                                                         *)
(* The notebook is one linear script of code cells.  Each cell is a        *)
(* sequence of statements; the kernel executes them one after another in   *)
(* a single namespace.  A statement either completes (one action per kind  *)
(* of statement) or raises, and an uncaught exception stops the run.       *)
(*                                                                         *)
(* Real-valued literals are kept in hundredths (1.5 is 150, .25 is 25,     *)
(* .01 is 1); sizes, draws and shapes are kept as written.                 *)
(* Arrays are described by their shape and by the call that generated      *)
(* them; the random values themselves are not part of any statement of     *)
(* the notebook.                                                           *)
(***************************************************************************)
EXTENDS Integers, Sequences, FiniteSets, TLC

VARIABLES
    pc,        \* index in Program of the next statement to execute
    halted,    \* TRUE once an uncaught exception has stopped the run
    error,     \* the exception that stopped the run, "none" before
    env,       \* the kernel namespace: name -> value
    ctx,       \* PyMC3's model context stack (ids of the open models)
    models,    \* model id -> the variables registered in it, in order
    log,       \* one event per statement executed, in order
    cellEnv    \* the namespace as it was when the current cell started

vars == <<pc, halted, error, env, ctx, models, log, cellEnv>>

(***************************************************************************)
(* Statements                                                              *)
(***************************************************************************)

\* One statement of a code cell: the cell it is in, its line in the .ipynb
\* file, its kind, the names it binds (in order), the names it reads, the
\* operation it performs and the literal arguments of that operation.
Stmt(cell, line, kind, targets, uses, op, args) ==
    [cell |-> cell, line |-> line, kind |-> kind, targets |-> targets,
     uses |-> uses, op |-> op, args |-> args]

NoArgs == [none |-> 0]

Import(cell, line, name) ==
    Stmt(cell, line, "Import", <<name>>, {}, "import", NoArgs)

Def(cell, line, name) ==
    Stmt(cell, line, "Def", <<name>>, {}, "def", NoArgs)

\* with pm.Model() as name:
NewModel(cell, line, name) ==
    Stmt(cell, line, "NewModel", <<name>>, {"pm"}, "pm.Model", NoArgs)

\* with name:
EnterModel(cell, line, name) ==
    Stmt(cell, line, "EnterModel", <<>>, {name}, "with", NoArgs)

\* the end of a with block (the context manager's __exit__)
ExitWith(cell, line) ==
    Stmt(cell, line, "ExitWith", <<>>, {}, "exit", NoArgs)

\* target = pm.<dist>(name, literals..., references..., observed=..., shape=...)
\* lit: the literal parameters; refs: parameter -> the name it reads;
\* observed: the name of the observed data ("" when there is none).
RV(cell, line, target, dist, name, lit, refs, observed) ==
    Stmt(cell, line, "RV", <<target>>,
         {"pm"} \cup {refs[k] : k \in DOMAIN refs}
                \cup (IF observed = "" THEN {} ELSE {observed}),
         dist,
         [name |-> name, lit |-> lit, refs |-> refs, observed |-> observed])

NoRefs == [k \in {} |-> ""]

Assign(cell, line, targets, uses, op, args) ==
    Stmt(cell, line, "Assign", targets, uses, op, args)

\* target = pm.sample(draws, tune=tune)
Sample(cell, line, target, draws, tune) ==
    Stmt(cell, line, "Sample", <<target>>, {"pm"}, "pm.sample",
         [draws |-> draws, tune |-> tune])

\* target = pm.sample_ppc(trace, samples=samples, model=model, size=size)
\* samples = 0, model = "", size = 0 stand for an argument that is not given.
SamplePPC(cell, line, target, trace, samples, model, size) ==
    Stmt(cell, line, "SamplePPC", <<target>>,
         {"pm", trace} \cup (IF model = "" THEN {} ELSE {model}),
         "pm.sample_ppc",
         [trace |-> trace, samples |-> samples, model |-> model, size |-> size])

\* pm.traceplot(trace, varnames)
TracePlot(cell, line, trace, varnames) ==
    Stmt(cell, line, "TracePlot", <<>>, {"pm", trace}, "pm.traceplot",
         [trace |-> trace, varnames |-> varnames])

\* a matplotlib call; xs are the arrays it is given, in order
Plot(cell, line, op, xs) ==
    Stmt(cell, line, "Plot", <<>>, {"plt"} \cup {xs[i] : i \in DOMAIN xs}, op,
         [xs |-> xs])

\* an expression statement or a print: it reads names and binds none
Show(cell, line, uses) ==
    Stmt(cell, line, "Show", <<>>, uses, "show", NoArgs)

(***************************************************************************)
(* The code cells (cell numbers count the markdown cells too)              *)
(***************************************************************************)

Cell_00 ==
    << Show(0, 9, {}),   \* %matplotlib inline
       Import(0, 10, "np"),
       Import(0, 11, "pd"),
       Import(0, 12, "plt"),
       Import(0, 13, "pm"),
       Import(0, 14, "shared") >>

Cell_03 ==
    << NewModel(3, 39, "model"),
       RV(3, 40, "lambda_param", "Exponential", "poisson_param",
          [lam |-> 100], NoRefs, ""),
       RV(3, 41, "DGP", "Poisson", "DGP",
          NoArgs, [mu |-> "lambda_param"], ""),
       ExitWith(3, 41) >>

Cell_04 == << Show(4, 52, {"lambda_param"}) >>

Cell_07 ==
    << NewModel(7, 78, "another_model"),
       RV(7, 79, "lambda_param", "Exponential", "poisson_param",
          [lam |-> 100], NoRefs, ""),
       ExitWith(7, 79) >>

Cell_08 == << Show(8, 89, {"lambda_param"}) >>

Cell_10 ==
    << NewModel(10, 108, "model"),
       RV(10, 109, "lambda_1", "Exponential", "lambda_1",
          [lam |-> 100], NoRefs, ""),
       RV(10, 110, "lambda_2", "Exponential", "lambda_2",
          [lam |-> 100], NoRefs, ""),
       RV(10, 111, "tau", "DiscreteUniform", "tau",
          [lower |-> 0, upper |-> 1000], NoRefs, ""),
       ExitWith(10, 111),
       Assign(10, 113, <<"new_deterministic_variable">>,
              {"lambda_1", "lambda_2"}, "theano", NoArgs) >>

Cell_11 ==
    << Def(11, 122, "subtract"),
       NewModel(11, 125, "model"),
       RV(11, 126, "stochastic_1", "Uniform", "U_1",
          [lower |-> 0, upper |-> 100], NoRefs, ""),
       RV(11, 127, "stochastic_2", "Uniform", "U_2",
          [lower |-> 0, upper |-> 100], NoRefs, ""),
       RV(11, 129, "det_1", "Deterministic", "Delta",
          NoArgs, [f |-> "subtract", x |-> "stochastic_1", y |-> "stochastic_2"],
          ""),
       ExitWith(11, 129) >>

Cell_13 ==
    << NewModel(13, 145, "model"),
       RV(13, 146, "lambda_param", "Exponential", "poisson_param",
          [lam |-> 100], NoRefs, ""),
       RV(13, 147, "DGP", "Poisson", "DGP",
          NoArgs, [mu |-> "lambda_param"], ""),
       ExitWith(13, 147) >>

Cell_14 ==
    << Assign(14, 156, <<"samples">>, {"lambda_param"}, "rv.random",
              [x |-> "lambda_param", size |-> 20000]),
       Plot(14, 159, "plt.hist", <<"samples">>),
       Plot(14, 160, "plt.title", <<>>),
       Plot(14, 161, "plt.xlim", <<>>) >>

Cell_17 ==
    << Assign(17, 184, <<"my_fake_data">>, {"np"}, "np.array", [len |-> 5]),
       NewModel(17, 186, "model"),
       RV(17, 187, "fixed_variable", "Poisson", "fixed_var",
          [mu |-> 100], NoRefs, "my_fake_data"),
       ExitWith(17, 187),
       Show(17, 189, {"fixed_variable"}) >>

\* Priors far from true data, expansive priors
Cell_19 ==
    << Assign(19, 207, <<"normal_sample">>, {"np"}, "np.random.normal",
              [mu |-> 0, sd |-> 100, size |-> 1000]) >>

\* the same cell with the likelihood written after the with block
Cell_20_PredOutside ==
    << NewModel(20, 218, "random_normal"),
       RV(20, 221, "sd", "HalfNormal", "sd", [sd |-> 50], NoRefs, ""),
       RV(20, 222, "mu", "Normal", "mu", [mu |-> 200, sd |-> 100], NoRefs, ""),
       ExitWith(20, 222),
       RV(20, 224, "pred", "Normal", "pred",
          NoArgs, [mu |-> "mu", sd |-> "sd"], "normal_sample") >>

Cell_20 ==
    << NewModel(20, 218, "random_normal"),
       RV(20, 221, "sd", "HalfNormal", "sd", [sd |-> 50], NoRefs, ""),
       RV(20, 222, "mu", "Normal", "mu", [mu |-> 200, sd |-> 100], NoRefs, ""),
       RV(20, 224, "pred", "Normal", "pred",
          NoArgs, [mu |-> "mu", sd |-> "sd"], "normal_sample"),
       ExitWith(20, 224) >>

Cell_21 ==
    << Show(21, 233, {"mu"}),
       Show(21, 234, {"mu"}),
       Show(21, 235, {"mu"}) >>

Cell_22 ==
    << EnterModel(22, 244, "random_normal"),
       Sample(22, 245, "trace_normal", 500, 0),
       ExitWith(22, 245) >>

Cell_23 == << TracePlot(23, 254, "trace_normal", {"mu", "sd"}) >>

\* Priors far from true data, restrictive priors
Cell_25 ==
    << Assign(25, 270, <<"normal_sample">>, {"np"}, "np.random.normal",
              [mu |-> 0, sd |-> 100, size |-> 1000]) >>

Cell_26 ==
    << NewModel(26, 282, "random_normal"),
       RV(26, 284, "sd", "HalfNormal", "sd", [sd |-> 10], NoRefs, ""),
       RV(26, 285, "mu", "Normal", "mu", [mu |-> 200, sd |-> 10], NoRefs, ""),
       RV(26, 287, "pred", "Normal", "pred",
          NoArgs, [mu |-> "mu", sd |-> "sd"], "normal_sample"),
       ExitWith(26, 287) >>

\* the same cell with the trace bound to another name (a renaming slip):
\* the plot cell below then reads the trace of the section before
Cell_27_OtherName ==
    << EnterModel(27, 296, "random_normal"),
       Sample(27, 297, "trace", 500, 0),
       ExitWith(27, 297) >>

Cell_27 ==
    << EnterModel(27, 296, "random_normal"),
       Sample(27, 297, "trace_normal", 500, 0),
       ExitWith(27, 297) >>

Cell_28 == << TracePlot(28, 307, "trace_normal", {"mu", "sd"}) >>

\* Linear Regression
Cell_30 == << Def(30, 325, "make_random_OLS_data") >>

\* the same call with the intercept the prior is centred at
Cell_31_OtherIntercept ==
    << Assign(31, 340, <<"X_train", "y_train">>, {"make_random_OLS_data"},
              "make_random_OLS_data",
              [num_obs |-> 1000, intercept |-> 75, beta |-> 25]) >>

Cell_31 ==
    << Assign(31, 340, <<"X_train", "y_train">>, {"make_random_OLS_data"},
              "make_random_OLS_data",
              [num_obs |-> 1000, intercept |-> 150, beta |-> 25]) >>

Cell_32 == << Plot(32, 349, "plt.scatter", <<"X_train", "y_train">>) >>

Cell_33 ==
    << NewModel(33, 358, "OLS"),
       RV(33, 361, "intercept", "Normal", "intercept",
          [mu |-> 75, sd |-> 100], NoRefs, ""),
       RV(33, 362, "beta", "Normal", "beta",
          [mu |-> 0, sd |-> 100], NoRefs, ""),
       Assign(33, 363, <<"mu">>, {"beta", "X_train", "intercept"},
              "theano", NoArgs),
       RV(33, 364, "sd", "HalfNormal", "sd", [sd |-> 10], NoRefs, ""),
       RV(33, 366, "y", "Normal", "y_est",
          NoArgs, [mu |-> "mu", sd |-> "sd"], "y_train"),
       ExitWith(33, 366) >>

Cell_34 ==
    << EnterModel(34, 375, "OLS"),
       Sample(34, 376, "trace", 2500, 0),
       ExitWith(34, 376) >>

Cell_35 == << TracePlot(35, 385, "trace", {"intercept", "beta", "sd"}) >>

Cell_37 ==
    << EnterModel(37, 408, "OLS"),
       SamplePPC(37, 411, "ppc", "trace", 2000, "", 0),
       ExitWith(37, 411),
       \* print(..., ppc['y_est'].shape): evaluated, bound to no name
       Assign(37, 413, <<>>, {"ppc"}, "getitem", [x |-> "ppc", key |-> "y_est"]) >>

\* the same cell averaging over the observations instead of the samples
Cell_38_OtherAxis ==
    << Assign(38, 423, <<"y_hat">>, {"ppc"}, "getitem",
              [x |-> "ppc", key |-> "y_est"]),
       Assign(38, 424, <<"y_hat_mean">>, {"np", "y_hat"}, "reshape_mean",
              [x |-> "y_hat", axis |-> 1]),
       Plot(38, 426, "plt.scatter", <<"X_train", "y_train">>),
       Plot(38, 427, "plt.scatter", <<"X_train", "y_hat_mean">>),
       Plot(38, 428, "plt.title", <<>>) >>

Cell_38 ==
    << Assign(38, 423, <<"y_hat">>, {"ppc"}, "getitem",
              [x |-> "ppc", key |-> "y_est"]),
       Assign(38, 424, <<"y_hat_mean">>, {"np", "y_hat"}, "reshape_mean",
              [x |-> "y_hat", axis |-> 0]),
       Plot(38, 426, "plt.scatter", <<"X_train", "y_train">>),
       Plot(38, 427, "plt.scatter", <<"X_train", "y_hat_mean">>),
       Plot(38, 428, "plt.title", <<>>) >>

\* Hierarchical Linear Model
Cell_40 ==
    << Assign(40, 446, <<"NUM_GROUPS">>, {}, "literal", [value |-> 10]),
       Def(40, 448, "generate_hierarchical_data"),
       Def(40, 474, "RMSE"),
       Assign(40, 477, <<"X", "Y", "group_id">>,
              {"generate_hierarchical_data", "NUM_GROUPS"},
              "generate_hierarchical_data",
              [num_obs_per_group |-> 50, num_groups |-> "NUM_GROUPS",
               pop_intercept |-> 230, pop_beta |-> 450, pop_sd |-> 10]) >>

Cell_41 ==
    << Assign(41, 487, <<"X_shared">>, {"shared", "X"}, "shared", [x |-> "X"]),
       Assign(41, 488, <<"Y_shared">>, {"shared", "Y"}, "shared", [x |-> "Y"]) >>

\* Unpooled
Cell_43 ==
    << NewModel(43, 504, "FE_unpooled"),
       RV(43, 506, "intercept", "Normal", "intercept",
          [mu |-> 100, sd |-> 50], [shape |-> "NUM_GROUPS"], ""),
       RV(43, 507, "beta", "Normal", "beta",
          [mu |-> 200, sd |-> 50], [shape |-> "NUM_GROUPS"], ""),
       Assign(43, 508, <<"mu">>, {"beta", "group_id", "X_shared", "intercept"},
              "theano", NoArgs),
       RV(43, 510, "y", "Normal", "y", NoArgs, [mu |-> "mu"], "Y"),
       ExitWith(43, 510) >>

Cell_44 ==
    << EnterModel(44, 519, "FE_unpooled"),
       Sample(44, 520, "unpooled_trace", 2000, 500),
       ExitWith(44, 520) >>

Cell_45 == << TracePlot(45, 529, "unpooled_trace", {"intercept", "beta"}) >>

Cell_46 ==
    << SamplePPC(46, 539, "unpooled_sample", "unpooled_trace", 0,
                 "FE_unpooled", 1000),
       Assign(46, 540, <<"y_hat_unpooled">>, {"np", "unpooled_sample"},
              "mean_getitem", [x |-> "unpooled_sample", key |-> "y", axis |-> 1]) >>

Cell_47 ==
    << Assign(47, 549, <<"unpooled_RMSE">>, {"RMSE", "Y", "y_hat_unpooled"},
              "RMSE", [Y |-> "Y", y_hat |-> "y_hat_unpooled"]),
       Show(47, 551, {"unpooled_RMSE"}) >>

\* Pooled
Cell_49 ==
    << NewModel(49, 567, "RE_pooled"),
       RV(49, 569, "pop_intercept", "Normal", "group_intercept",
          [mu |-> 100, sd |-> 500, shape |-> 1], NoRefs, ""),
       RV(49, 570, "pop_intercept_sigma", "HalfNormal", "group_intercept_sigma",
          [sd |-> 50], NoRefs, ""),
       RV(49, 571, "pop_beta", "Normal", "group_beta",
          [mu |-> 400, sd |-> 500, shape |-> 1], NoRefs, ""),
       RV(49, 572, "pop_beta_sigma", "HalfNormal", "group_beta_sigma",
          [sd |-> 50], NoRefs, ""),
       RV(49, 574, "intercept", "Normal", "intercept", NoArgs,
          [mu |-> "pop_intercept", sd |-> "pop_intercept_sigma",
           shape |-> "NUM_GROUPS"], ""),
       RV(49, 575, "beta", "Normal", "beta", NoArgs,
          [mu |-> "pop_beta", sd |-> "pop_beta_sigma",
           shape |-> "NUM_GROUPS"], ""),
       Assign(49, 576, <<"mu">>, {"beta", "group_id", "X_shared", "intercept"},
              "theano", NoArgs),
       RV(49, 578, "y", "Normal", "y", NoArgs, [mu |-> "mu"], "Y_shared"),
       ExitWith(49, 578) >>

Cell_50 ==
    << EnterModel(50, 587, "RE_pooled"),
       Sample(50, 588, "pooled_trace", 2000, 2000),
       ExitWith(50, 588) >>

Cell_51 ==
    << TracePlot(51, 597, "pooled_trace",
                 {"group_intercept", "group_intercept_sigma", "group_beta",
                  "group_beta_sigma", "intercept", "beta"}) >>

Cell_52 ==
    << SamplePPC(52, 608, "pooled_sample", "pooled_trace", 0, "RE_pooled", 1000),
       Assign(52, 609, <<"y_hat_pooled">>, {"np", "pooled_sample"},
              "mean_getitem", [x |-> "pooled_sample", key |-> "y", axis |-> 1]),
       Assign(52, 611, <<"pooled_RMSE">>, {"RMSE", "Y", "y_hat_pooled"},
              "RMSE", [Y |-> "Y", y_hat |-> "y_hat_pooled"]),
       Show(52, 613, {"unpooled_RMSE"}),
       Show(52, 614, {"pooled_RMSE"}) >>

\* The cells in the order a run from top to bottom executes them.
Program ==
    Cell_00 \o Cell_03 \o Cell_04 \o Cell_07 \o Cell_08 \o Cell_10 \o Cell_11
    \o Cell_13 \o Cell_14 \o Cell_17 \o Cell_19 \o Cell_20 \o Cell_21
    \o Cell_22 \o Cell_23 \o Cell_25 \o Cell_26 \o Cell_27 \o Cell_28
    \o Cell_30 \o Cell_31 \o Cell_32 \o Cell_33 \o Cell_34 \o Cell_35
    \o Cell_37 \o Cell_38 \o Cell_40 \o Cell_41 \o Cell_43 \o Cell_44
    \o Cell_45 \o Cell_46 \o Cell_47 \o Cell_49 \o Cell_50 \o Cell_51
    \o Cell_52

NStmts == Len(Program)

Names ==
    UNION { {Program[i].targets[k] : k \in DOMAIN Program[i].targets}
            \cup Program[i].uses : i \in 1..NStmts }

(***************************************************************************)
(* Values                                                                  *)
(***************************************************************************)

Unbound == [kind |-> "unbound"]

\* An object's id is the index of the statement that created it; the
\* arrays one call returns together are told apart by their role.
Array(id, role, shape, gen) ==
    [kind |-> "array", id |-> id, role |-> role, shape |-> shape, gen |-> gen]

Scalar(id, gen) == [kind |-> "number", id |-> id, gen |-> gen]

RECURSIVE Prod(_)
Prod(shape) == IF shape = <<>> THEN 1 ELSE Head(shape) * Prod(Tail(shape))

Last(s) == s[Len(s)]
Front(s) == SubSeq(s, 1, Len(s) - 1)

\* NumPy broadcasting of two shapes, aligned at their last axes
Dim(shape, k, n) ==
    IF k > n - Len(shape) THEN shape[k - (n - Len(shape))] ELSE 1

Max(a, b) == IF a >= b THEN a ELSE b

Broadcastable(s1, s2) ==
    LET n == Max(Len(s1), Len(s2))
    IN  \A k \in 1..n : \/ Dim(s1, k, n) = Dim(s2, k, n)
                        \/ Dim(s1, k, n) = 1
                        \/ Dim(s2, k, n) = 1

Broadcast(s1, s2) ==
    LET n == Max(Len(s1), Len(s2))
    IN  [k \in 1..n |-> Max(Dim(s1, k, n), Dim(s2, k, n))]

\* np.random.normal(mu, sd, size)
np_random_normal(id, role, mu, sd, size) ==
    Array(id, role, <<size>>, [fn |-> "normal", mu |-> mu, sd |-> sd])

\* the same sequence without its element at 0-based position axis
DropAxis(s, axis) ==
    [k \in 1..(Len(s) - 1) |-> IF k <= axis THEN s[k] ELSE s[k + 1]]

\* np.mean(a, axis=axis): the axis is averaged away
np_mean(id, a, axis) ==
    Array(id, "mean", DropAxis(a.shape, axis),
          [fn |-> "mean", over |-> a.gen.axes[axis + 1],
           axes |-> DropAxis(a.gen.axes, axis), n |-> a.shape[axis + 1]])

\* np.reshape(a, [-1]): one axis holding every element
np_reshape_flat(id, a) ==
    Array(id, "reshape", <<Prod(a.shape)>>, [fn |-> "reshape", of |-> a.gen])

(***************************************************************************)
(* The functions the notebook defines                                      *)
(***************************************************************************)

\* def make_random_OLS_data(num_obs, intercept, beta): returns X, y
make_random_OLS_data(id, num_obs, intercept, beta) ==
    LET X == np_random_normal(id, "X", 100, 10, num_obs)
        epsilon == np_random_normal(id, "epsilon", 0, 10, num_obs)
        y == Array(id, "y", Broadcast(X.shape, epsilon.shape),
                   [fn |-> "intercept + (beta*X) + epsilon",
                    intercept |-> intercept, beta |-> beta,
                    X |-> X.gen, epsilon |-> epsilon.gen])
    IN  <<X, y>>

\* def generate_hierarchical_data(num_obs_per_group, num_groups,
\*                                pop_intercept, pop_beta, pop_sd):
\* returns X, Y, group_id, each of shape (num_groups*num_obs_per_group, 1);
\* rows: the rows the second loop assigns.
generate_hierarchical_data(id, num_obs_per_group, num_groups, pop_intercept, pop_beta, pop_sd) ==
    LET n == num_groups * num_obs_per_group
        group_lvl_params ==
            [g \in 1..num_groups |->
                [intercept_grp |-> [fn |-> "normal", mu |-> pop_intercept,
                                    sd |-> pop_sd],
                 beta_grp |-> [fn |-> "normal", mu |-> pop_beta, sd |-> pop_sd]]]
        indiv_epsilon == [fn |-> "normal", mu |-> 0, sd |-> 1]
        rows == UNION { (i * num_obs_per_group) ..
                        (i * num_obs_per_group + num_obs_per_group - 1) :
                        i \in 0..(Len(group_lvl_params) - 1) }
        X == Array(id, "X", <<n, 1>>,
                   [fn |-> "indiv_epsilon", epsilon |-> indiv_epsilon,
                    rows |-> rows])
        Y == Array(id, "Y", <<n, 1>>,
                   [fn |-> "group[1]*indiv_epsilon + group[0]",
                    groups |-> group_lvl_params, epsilon |-> indiv_epsilon,
                    rows |-> rows])
        group_id == Array(id, "group_id", <<n, 1>>,
                          [fn |-> "ones_like * i", rows |-> rows])
    IN  <<X, Y, group_id>>

\* def RMSE(Y, y_hat): np.sqrt(np.mean((y_hat - Y) ** 2.0))
RMSE(id, Y, y_hat) ==
    Scalar(id, [fn |-> "RMSE", over |-> Broadcast(y_hat.shape, Y.shape)])

(***************************************************************************)
(* PyMC3, as far as the notebook's calls depend on it                      *)
(***************************************************************************)

IsArray(v) == v.kind = "array"

\* the variable a distribution constructor registers in the model
\* at the top of the context stack
RandomVariable(id, s) ==
    LET a == s.args
        observed == IF a.observed = "" THEN Unbound ELSE env[a.observed]
        shape == IF a.observed # "" THEN observed.shape
                 ELSE IF "shape" \in DOMAIN a.lit THEN <<a.lit.shape>>
                 ELSE IF "shape" \in DOMAIN a.refs
                      THEN <<env[a.refs.shape].value>>
                 ELSE <<>>
    IN  [kind |-> "rv", id |-> id, model |-> Last(ctx), name |-> a.name,
         dist |-> s.op, lit |-> a.lit,
         parents |-> [k \in DOMAIN a.refs |-> env[a.refs[k]].id],
         observed |-> observed, shape |-> shape]

RegisteredNames(m) == {models[m][k].name : k \in DOMAIN models[m]}

FreeNames(m) ==
    {models[m][k].name :
        k \in {j \in DOMAIN models[m] : models[m][j].observed.kind = "unbound"}}

IsObserved(r) == r.observed.kind # "unbound"

\* pm.sample(draws, tune=tune) in the context of model m
pm_sample(id, m, draws, tune) ==
    [kind |-> "trace", id |-> id, model |-> m, draws |-> draws, tune |-> tune,
     varnames |-> FreeNames(m)]

\* the model a call uses: the one given as model=, else the innermost
\* open context; 0 when there is neither
ModelFor(explicit) ==
    IF explicit # "" THEN env[explicit].id
    ELSE IF ctx # <<>> THEN Last(ctx)
    ELSE 0

\* pm.sample_ppc(trace, samples, model, size): for every observed variable
\* of the model, `samples` draws (len(trace) when not given), each of
\* shape (size,) + the variable's shape, stacked along a new first axis
pm_sample_ppc(id, trace, samples, m, size) ==
    LET n == IF samples = 0 THEN trace.draws ELSE samples
        obs == SelectSeq(models[m], IsObserved)
        lead == IF size = 0 THEN <<n>> ELSE <<n, size>>
        leadAxes == IF size = 0 THEN <<"sample">> ELSE <<"sample", "size">>
    IN  [kind |-> "ppc", id |-> id, trace |-> trace.id, model |-> m,
         vars |-> [k \in DOMAIN obs |->
                     [name |-> obs[k].name,
                      shape |-> lead \o obs[k].shape,
                      axes |-> leadAxes \o
                               [j \in DOMAIN obs[k].shape |-> "observation"]]]]

HasKey(ppc, key) == \E k \in DOMAIN ppc.vars : ppc.vars[k].name = key

\* ppc[key]
GetItem(id, ppc, key) ==
    LET v == ppc.vars[CHOOSE k \in DOMAIN ppc.vars : ppc.vars[k].name = key]
    IN  Array(id, key, v.shape,
              [fn |-> "sample_ppc", axes |-> v.axes, ppc |-> ppc.id])

(***************************************************************************)
(* Executing one statement                                                 *)
(***************************************************************************)

Running == ~halted /\ pc <= NStmts

Missing(s) == {n \in s.uses : env[n].kind = "unbound"}

\* the exception evaluating an Assign statement's right-hand side raises
\* in the current state, "none" when it evaluates
EvalFault(s) ==
    LET a == s.args
    IN  CASE s.op = "rv.random" ->
                IF env[a.x].kind # "rv" THEN "AttributeError" ELSE "none"
          [] s.op = "shared" ->
                IF ~IsArray(env[a.x]) THEN "TypeError" ELSE "none"
          [] s.op = "getitem" ->
                IF env[a.x].kind # "ppc" THEN "TypeError"
                ELSE IF ~HasKey(env[a.x], a.key) THEN "KeyError"
                ELSE "none"
          [] s.op = "reshape_mean" ->
                IF ~IsArray(env[a.x]) THEN "TypeError"
                ELSE IF a.axis >= Len(env[a.x].shape) THEN "AxisError"
                ELSE "none"
          [] s.op = "mean_getitem" ->
                IF env[a.x].kind # "ppc" THEN "TypeError"
                ELSE IF ~HasKey(env[a.x], a.key) THEN "KeyError"
                ELSE IF a.axis >= Len(GetItem(pc, env[a.x], a.key).shape)
                     THEN "AxisError"
                ELSE "none"
          [] s.op = "RMSE" ->
                IF ~IsArray(env[a.Y]) \/ ~IsArray(env[a.y_hat]) THEN "TypeError"
                ELSE IF ~Broadcastable(env[a.y_hat].shape, env[a.Y].shape)
                     THEN "ValueError"
                ELSE "none"
          [] s.op = "generate_hierarchical_data" ->
                IF env[a.num_groups].kind # "number" THEN "TypeError" ELSE "none"
          [] OTHER -> "none"

\* the values an Assign statement's right-hand side evaluates to, one per
\* target (one value when it binds no name)
Eval(s) ==
    LET a == s.args
    IN  CASE s.op = "literal" ->
                << [kind |-> "number", id |-> pc, value |-> a.value] >>
          [] s.op = "np.array" ->
                << Array(pc, "array", <<a.len>>, [fn |-> "literal"]) >>
          [] s.op = "np.random.normal" ->
                << np_random_normal(pc, "normal", a.mu, a.sd, a.size) >>
          [] s.op = "rv.random" ->
                << Array(pc, "random", <<a.size>>,
                         [fn |-> "random", rv |-> env[a.x].id]) >>
          [] s.op = "theano" ->
                << [kind |-> "tensor", id |-> pc,
                    parents |-> {env[n].id : n \in s.uses}] >>
          [] s.op = "shared" ->
                << Array(pc, "shared", env[a.x].shape,
                         [fn |-> "shared", of |-> env[a.x].id,
                          role |-> env[a.x].role]) >>
          [] s.op = "make_random_OLS_data" ->
                make_random_OLS_data(pc, a.num_obs, a.intercept, a.beta)
          [] s.op = "generate_hierarchical_data" ->
                generate_hierarchical_data(pc, a.num_obs_per_group,
                    env[a.num_groups].value, a.pop_intercept, a.pop_beta,
                    a.pop_sd)
          [] s.op = "getitem" ->
                << GetItem(pc, env[a.x], a.key) >>
          [] s.op = "reshape_mean" ->
                << np_reshape_flat(pc, np_mean(pc, env[a.x], a.axis)) >>
          [] s.op = "mean_getitem" ->
                << np_mean(pc, GetItem(pc, env[a.x], a.key), a.axis) >>
          [] s.op = "RMSE" ->
                << RMSE(pc, env[a.Y], env[a.y_hat]) >>

\* the exception statement s raises by itself in the current state,
\* "none" when it can complete ("NoContext" is PyMC3's TypeError
\* "No model on context stack")
Fault(s) ==
    LET a == s.args
    IN  IF Missing(s) # {} THEN "NameError"
        ELSE CASE s.kind = "EnterModel" ->
                    IF \E n \in s.uses : env[n].kind # "model"
                    THEN "AttributeError" ELSE "none"
               [] s.kind = "RV" ->
                    IF ctx = <<>> THEN "NoContext"
                    ELSE IF a.name \in RegisteredNames(Last(ctx))
                         THEN "ValueError"
                    ELSE IF a.observed # "" /\ ~IsArray(env[a.observed])
                         THEN "TypeError"
                    ELSE "none"
               [] s.kind = "Sample" ->
                    IF ctx = <<>> THEN "NoContext" ELSE "none"
               [] s.kind = "SamplePPC" ->
                    IF env[a.trace].kind # "trace" THEN "TypeError"
                    ELSE IF a.model # "" /\ env[a.model].kind # "model"
                         THEN "TypeError"
                    ELSE IF ModelFor(a.model) = 0 THEN "NoContext"
                    ELSE "none"
               [] s.kind = "TracePlot" ->
                    IF env[a.trace].kind # "trace" THEN "TypeError"
                    ELSE IF ~(a.varnames \subseteq env[a.trace].varnames)
                         THEN "KeyError"
                    ELSE "none"
               [] s.kind = "Plot" ->
                    IF \E k \in DOMAIN a.xs : ~IsArray(env[a.xs[k]])
                    THEN "TypeError"
                    ELSE IF s.op = "plt.scatter"
                            /\ Prod(env[a.xs[1]].shape) # Prod(env[a.xs[2]].shape)
                         THEN "ValueError"
                    ELSE "none"
               [] s.kind = "Assign" -> EvalFault(s)
               [] OTHER -> "none"

Event(s, obj) ==
    [stmt |-> pc, cell |-> s.cell, kind |-> s.kind, ctx |-> ctx, obj |-> obj]

Bind(targets, values) ==
    [n \in Names |->
        IF \E k \in DOMAIN targets : targets[k] = n
        THEN values[CHOOSE k \in DOMAIN targets : targets[k] = n]
        ELSE env[n]]

\* Statement pc completes: the namespace becomes newEnv, the next statement
\* is the one below it, and a new cell starts from the namespace as it is.
Complete(newEnv, obj) ==
    /\ env' = newEnv
    /\ pc' = pc + 1
    /\ log' = Append(log, Event(Program[pc], obj))
    /\ cellEnv' = IF pc + 1 > NStmts \/ Program[pc + 1].cell # Program[pc].cell
                  THEN newEnv ELSE cellEnv
    /\ UNCHANGED <<halted, error>>

Ready(kind) ==
    /\ Running
    /\ Program[pc].kind = kind
    /\ Fault(Program[pc]) = "none"

(***************************************************************************)
(* Actions: one per kind of statement, and the uncaught exception          *)
(***************************************************************************)

Init ==
    /\ pc = 1
    /\ halted = FALSE
    /\ error = "none"
    /\ env = [n \in Names |-> Unbound]
    /\ ctx = <<>>
    /\ models = <<>>
    /\ log = <<>>
    /\ cellEnv = [n \in Names |-> Unbound]

\* import ... as name
DoImport ==
    /\ Ready("Import")
    /\ LET v == [kind |-> "module", id |-> pc]
       IN  Complete(Bind(Program[pc].targets, <<v>>), v)
    /\ UNCHANGED <<ctx, models>>

\* def name(...):
DoDef ==
    /\ Ready("Def")
    /\ LET v == [kind |-> "function", id |-> pc]
       IN  Complete(Bind(Program[pc].targets, <<v>>), v)
    /\ UNCHANGED <<ctx, models>>

\* with pm.Model() as name: a new, empty model is created, pushed on the
\* context stack and bound to name
DoNewModel ==
    /\ Ready("NewModel")
    /\ LET v == [kind |-> "model", id |-> pc]
       IN  Complete(Bind(Program[pc].targets, <<v>>), v)
    /\ ctx' = Append(ctx, pc)
    /\ models' = (pc :> <<>>) @@ models

\* with name: the model bound to name is pushed on the context stack
DoEnterModel ==
    /\ Ready("EnterModel")
    /\ LET v == env[CHOOSE n \in Program[pc].uses : TRUE]
       IN  /\ Complete(env, v)
           /\ ctx' = Append(ctx, v.id)
    /\ UNCHANGED models

\* the end of a with block pops the context stack
DoExitWith ==
    /\ Ready("ExitWith")
    /\ ctx # <<>>
    /\ Complete(env, [kind |-> "model", id |-> Last(ctx)])
    /\ ctx' = Front(ctx)
    /\ UNCHANGED models

\* target = pm.<Distribution>(...): the variable is registered in the
\* innermost open model and bound to target
DoRV ==
    /\ Ready("RV")
    /\ LET v == RandomVariable(pc, Program[pc])
       IN  /\ Complete(Bind(Program[pc].targets, <<v>>), v)
           /\ models' = [models EXCEPT ![Last(ctx)] = Append(@, v)]
    /\ UNCHANGED ctx

\* targets = <expression>
DoAssign ==
    /\ Ready("Assign")
    /\ LET vs == Eval(Program[pc])
       IN  Complete(Bind(Program[pc].targets, vs), vs)
    /\ UNCHANGED <<ctx, models>>

\* target = pm.sample(draws, tune=...) on the innermost open model
DoSample ==
    /\ Ready("Sample")
    /\ LET a == Program[pc].args
           v == pm_sample(pc, Last(ctx), a.draws, a.tune)
       IN  Complete(Bind(Program[pc].targets, <<v>>), v)
    /\ UNCHANGED <<ctx, models>>

\* target = pm.sample_ppc(trace, samples=..., model=..., size=...)
DoSamplePPC ==
    /\ Ready("SamplePPC")
    /\ LET a == Program[pc].args
           v == pm_sample_ppc(pc, env[a.trace], a.samples, ModelFor(a.model),
                              a.size)
       IN  Complete(Bind(Program[pc].targets, <<v>>), v)
    /\ UNCHANGED <<ctx, models>>

\* pm.traceplot(trace, varnames)
DoTracePlot ==
    /\ Ready("TracePlot")
    /\ Complete(env, env[Program[pc].args.trace])
    /\ UNCHANGED <<ctx, models>>

\* plt.hist / plt.scatter / plt.title / plt.xlim
DoPlot ==
    /\ Ready("Plot")
    /\ LET xs == Program[pc].args.xs
       IN  Complete(env, [k \in DOMAIN xs |-> env[xs[k]]])
    /\ UNCHANGED <<ctx, models>>

\* an expression statement or a print
DoShow ==
    /\ Ready("Show")
    /\ Complete(env, Program[pc].uses)
    /\ UNCHANGED <<ctx, models>>

\* Statements that run no code that can fail: a def, a literal assignment,
\* the end of a with block (pm.Model's __exit__ only pops the stack).
CanRaise(s) == s.kind \notin {"Def", "ExitWith"} /\ s.op # "literal"

\* the same with the exception swallowed, as under a try/except around the
\* statement (or a run that is told to continue past errors)
RaiseSwallowed ==
    /\ Running
    /\ CanRaise(Program[pc])
    /\ error' = IF Fault(Program[pc]) # "none" THEN Fault(Program[pc])
                ELSE "Exception"
    /\ log' = Append(log, [stmt |-> pc, cell |-> Program[pc].cell,
                           kind |-> "Raise", ctx |-> ctx, obj |-> error'])
    /\ pc' = pc + 1
    /\ cellEnv' = IF pc + 1 > NStmts \/ Program[pc + 1].cell # Program[pc].cell
                  THEN env ELSE cellEnv
    /\ UNCHANGED <<halted, env, ctx, models>>

\* Statement pc raises: its own fault if it has one, else an exception of
\* the library or the runtime.  No cell has a try statement, so the
\* exception unwinds the open with blocks and stops the run.
Raise ==
    /\ Running
    /\ CanRaise(Program[pc])
    /\ halted' = TRUE
    /\ error' = IF Fault(Program[pc]) # "none" THEN Fault(Program[pc])
                ELSE "Exception"
    /\ ctx' = <<>>
    /\ log' = Append(log, [stmt |-> pc, cell |-> Program[pc].cell,
                           kind |-> "Raise", ctx |-> ctx, obj |-> error'])
    /\ UNCHANGED <<pc, env, models, cellEnv>>

Next ==
    \/ DoImport
    \/ DoDef
    \/ DoNewModel
    \/ DoEnterModel
    \/ DoExitWith
    \/ DoRV
    \/ DoAssign
    \/ DoSample
    \/ DoSamplePPC
    \/ DoTracePlot
    \/ DoPlot
    \/ DoShow
    \/ Raise

Spec == Init /\ [][Next]_vars

Done == ~halted /\ pc = NStmts + 1

(***************************************************************************)
(* The layout of the notebook                                              *)
(***************************************************************************)

\* The section a cell is in, by the markdown headings above it.
Section(cell) ==
    CASE cell \in 19..23 -> "expansive"      \* Priors far ..., expansive priors
      [] cell \in 25..28 -> "restrictive"    \* Priors far ..., restrictive priors
      [] cell \in 30..38 -> "ols"            \* Linear Regression
      [] cell \in 40..41 -> "hierarchical"   \* Hierarchical Linear Model
      [] cell \in 43..47 -> "unpooled"       \* Unpooled
      [] cell \in 49..52 -> "pooled"         \* Pooled
      [] OTHER -> "intro"

ModellingSections == {"expansive", "restrictive", "ols", "unpooled", "pooled"}

\* The data of the unpooled and of the pooled model is generated once,
\* under the heading they share.
DataSection(sec) ==
    IF sec \in {"unpooled", "pooled"} THEN "hierarchical" ELSE sec

\* The step of "generate data -> define model -> call sampler -> plot" a
\* statement belongs to; 0 for a statement that belongs to none (a def, a
\* print, a plot of the raw data, with <model>: and its end).
Stage(s) ==
    CASE s.kind = "Assign" /\ s.op \in {"np.random.normal", "make_random_OLS_data",
                                       "generate_hierarchical_data", "shared"} -> 1
      [] s.kind \in {"NewModel", "RV"} -> 2
      [] s.kind = "Assign" /\ s.op = "theano" -> 2
      [] s.kind = "Sample" -> 3
      [] s.kind \in {"TracePlot", "SamplePPC"} -> 4
      [] s.kind = "Assign" /\ s.op \in {"getitem", "reshape_mean", "mean_getitem",
                                       "RMSE"} -> 4
      [] OTHER -> 0

\* The with statement whose block statement i is written in (the innermost
\* one), 0 when i is written in no with block.
Opened(j, i) ==
    Cardinality({k \in (j + 1)..(i - 1) :
                    Program[k].kind \in {"NewModel", "EnterModel"}})

Closed(j, i) ==
    Cardinality({k \in (j + 1)..(i - 1) : Program[k].kind = "ExitWith"})

EnclosingWith(i) ==
    LET open == {j \in 1..(i - 1) :
                    /\ Program[j].kind \in {"NewModel", "EnterModel"}
                    /\ Closed(j, i) = Opened(j, i)}
    IN  IF open = {} THEN 0 ELSE CHOOSE j \in open : \A k \in open : k <= j

\* The names the statements of the cell of statement p bind before p.
TargetsBefore(p) ==
    UNION { {Program[j].targets[k] : k \in DOMAIN Program[j].targets} :
            j \in {q \in 1..(p - 1) : Program[q].cell = Program[p].cell} }

Values(seq) == {seq[k] : k \in DOMAIN seq}

Executed(kind, line) ==
    \E i \in DOMAIN log : log[i].kind = kind /\ Program[log[i].stmt].line = line

(***************************************************************************)
(* C1: generate data -> define model -> call sampler -> plot               *)
(***************************************************************************)

\* The data a model observes was generated earlier, under the heading of
\* the model's section.
DataBeforeModel(i) ==
    LET e == log[i]
    IN  (e.kind = "RV" /\ IsObserved(e.obj)) =>
            \E j \in 1..(i - 1) :
                /\ log[j].kind = "Assign"
                /\ Stage(Program[log[j].stmt]) = 1
                /\ e.obj.observed \in Values(log[j].obj)
                /\ Section(log[j].cell) = DataSection(Section(e.cell))

\* pm.sample runs on a model whose defining block, with its observed
\* variable, was completed earlier in the same section.
ModelBeforeSample(i) ==
    LET e == log[i]
    IN  e.kind = "Sample" =>
            /\ \E j \in 1..(i - 1) :
                /\ log[j].kind = "ExitWith"
                /\ log[j].obj.id = e.obj.model
                /\ Program[EnclosingWith(log[j].stmt)].kind = "NewModel"
                /\ Section(log[j].cell) = Section(e.cell)
            /\ \E j \in 1..(i - 1) :
                /\ log[j].kind = "RV"
                /\ IsObserved(log[j].obj)
                /\ log[j].obj.model = e.obj.model

\* A trace is plotted, or passed to pm.sample_ppc, after the pm.sample call
\* of the same section returned it.
SampleBeforePlot(i) ==
    LET e == log[i]
        t == IF e.kind = "TracePlot" THEN e.obj.id ELSE e.obj.trace
    IN  e.kind \in {"TracePlot", "SamplePPC"} =>
            \E j \in 1..(i - 1) :
                /\ log[j].kind = "Sample"
                /\ log[j].obj.id = t
                /\ Section(log[j].cell) = Section(e.cell)

\* Within a section no step runs before a step that precedes it.
StagesInOrder(i) ==
    \A j \in 1..(i - 1) :
        LET a == Program[log[j].stmt]
            b == Program[log[i].stmt]
        IN  ( /\ log[i].kind # "Raise" /\ log[j].kind # "Raise"
              /\ Section(a.cell) = Section(b.cell)
              /\ Stage(a) > 0 /\ Stage(b) > 0 ) => Stage(a) <= Stage(b)

C2_ModelContext ==
    /\ error # "NoContext"
    /\ \A i \in DOMAIN log :
        LET e == log[i]
            w == EnclosingWith(e.stmt)
        IN  /\ e.kind = "RV" =>
                /\ e.ctx # <<>>
                /\ w # 0
                /\ Program[w].kind = "NewModel"
                /\ e.obj.model = w
                /\ e.obj.name \in RegisteredNames(w)
            /\ e.kind \in {"Sample", "SamplePPC"} =>
                \/ /\ w # 0
                   /\ Program[w].kind = "EnterModel"
                   /\ e.ctx # <<>>
                   /\ e.obj.model = Last(e.ctx)
                \/ /\ e.kind = "SamplePPC"
                   /\ Program[e.stmt].args.model # ""
                   /\ Program[e.obj.model].kind = "NewModel"
                   /\ Program[e.obj.model].targets
                        = <<Program[e.stmt].args.model>>

\* every constructor and every sampling call of the notebook has run
C2_Witness ==
    /\ Done
    /\ Cardinality({i \in DOMAIN log : log[i].kind = "RV"}) = 32
    /\ Executed("SamplePPC", 411)
    /\ Executed("SamplePPC", 539)

(***************************************************************************)
(* C3: the sample of the section "expansive priors"                        *)
(***************************************************************************)

\* "sample some random data from a Normal distribution N(mu=0,sd=.5)"
DocNormalMu == 0
DocNormalSd == 50

\* C3: the sample fitted in the section "Priors far from true data,
\* expansive priors" is drawn with the mean and the standard deviation the
\* section announces, 0 and 0.5.
C3_SampleAsAnnounced ==
    \A i \in DOMAIN log :
        ( /\ log[i].kind = "Assign"
          /\ Section(log[i].cell) = "expansive"
          /\ Program[log[i].stmt].targets = <<"normal_sample">> ) =>
            /\ log[i].obj[1].gen.mu = DocNormalMu
            /\ log[i].obj[1].gen.sd = DocNormalSd

(***************************************************************************)
(* C4: the posterior predictive check of the OLS model                     *)
(***************************************************************************)

\* C4: ppc['y_est'] holds 2000 samples for each of the 1000 training
\* observations (2000 along its first axis, 1000 along its second), and
\* y_hat_mean holds one value per training observation, the mean over the
\* 2000 samples, so it has the length of X_train.
C4_PosteriorPredictiveShape ==
    /\ env["ppc"].kind = "ppc" =>
          /\ Len(env["ppc"].vars) = 1
          /\ env["ppc"].vars[1].name = "y_est"
          /\ env["ppc"].vars[1].shape = <<2000, 1000>>
    /\ env["y_hat"].kind = "array" =>
          /\ env["y_hat"].shape = <<2000, 1000>>
          /\ env["y_hat"].gen.axes = <<"sample", "observation">>
    /\ env["y_hat_mean"].kind = "array" =>
          /\ env["y_hat_mean"].shape = <<1000>>
          /\ env["y_hat_mean"].shape = env["X_train"].shape
          /\ env["y_hat_mean"].gen.of.over = "sample"
          /\ env["y_hat_mean"].gen.of.n = 2000
          /\ env["y_hat_mean"].gen.of.axes = <<"observation">>
    /\ error # "ValueError"

\* y_hat_mean has been computed and scattered against X_train
C4_Witness ==
    /\ env["y_hat_mean"].kind = "array"
    /\ Executed("Plot", 427)

(***************************************************************************)
(* C5: the values annotated in the OLS section                             *)
(***************************************************************************)

\* # intercept: true = 1.5 | prior = .75
TrueIntercept == 150
PriorIntercept == 75
\* # beta: true = .25 | prior = 0.
TrueBeta == 25
PriorBeta == 0
\* # true sd = .1
TrueSd == 10

RVNamed(m, name) ==
    models[m][CHOOSE k \in DOMAIN models[m] : models[m][k].name = name]

\* C5: once the OLS model is defined, the data it observes was generated
\* with intercept 1.5, beta .25 and noise sd .1, and its priors are centred
\* at .75 (intercept) and 0 (beta), as the comments say.
C5_AnnotatedValues ==
    \A i \in DOMAIN log :
        LET e == log[i]
        IN  ( /\ e.kind = "RV" /\ e.obj.name = "y_est"
              /\ Section(e.cell) = "ols" ) =>
                /\ e.obj.observed.gen.intercept = TrueIntercept
                /\ e.obj.observed.gen.beta = TrueBeta
                /\ e.obj.observed.gen.epsilon.sd = TrueSd
                /\ e.obj.observed.gen.epsilon.mu = 0
                /\ e.obj.observed = env["y_train"]
                /\ RVNamed(e.obj.model, "intercept").lit.mu = PriorIntercept
                /\ RVNamed(e.obj.model, "beta").lit.mu = PriorBeta

\* the OLS model has been defined, sampled and its trace plotted
C5_Witness ==
    /\ Executed("RV", 366)
    /\ Executed("TracePlot", 385)

(***************************************************************************)
(* C6: an uncaught exception halts the run                                 *)
(***************************************************************************)

\* C6 as stated: an error raised while a cell runs halts execution at that
\* cell, no later cell runs, and the names bound by earlier cells are left
\* as they were.
C6_EarlierNamesUntouched ==
    \A i \in DOMAIN log :
        log[i].kind = "Raise" =>
            /\ halted
            /\ i = Len(log)
            /\ pc = log[i].stmt
            /\ \A n \in Names :
                  cellEnv[n].kind # "unbound" => env[n] = cellEnv[n]

\* C6 as amended: an error raised while a cell runs halts execution at the
\* failing statement, no later statement or cell runs, and nothing is
\* undone: every name keeps the value it had when the failing cell started,
\* except the names that the statements of the failing cell that completed
\* before the error have bound.
C6_HaltKeepsBindings ==
    \A i \in DOMAIN log :
        log[i].kind = "Raise" =>
            /\ halted
            /\ i = Len(log)
            /\ pc = log[i].stmt
            /\ \A n \in Names :
                  env[n] # cellEnv[n] => n \in TargetsBefore(pc)
            /\ \A n \in TargetsBefore(pc) : env[n].kind # "unbound"

\* the cell defining the OLS model failed at its likelihood, after it had
\* rebound mu and sd, which the cells of the Normal fits had bound
C6_Witness ==
    /\ halted
    /\ Program[pc].line = 366
    /\ env["mu"] # cellEnv["mu"]
    /\ cellEnv["mu"].kind = "rv"
    /\ env["normal_sample"] = cellEnv["normal_sample"]
====
